---- MODULE Spec2Model ----
(***************************************************************************)
(* Model of app.py: the node-provisioning script.  The main thread runs    *)
(* the module-level statements of app.py top to bottom (one action per     *)
(* section of the script); the daemon thread started by                    *)
(* threading.Thread(target=start_http_server) serves GET requests          *)
(* concurrently; the two child processes (sing-box, cloudflared) are       *)
(* external and act nondeterministically.                                  *)
(***************************************************************************)
EXTENDS Integers, Sequences, FiniteSets, TLC

\* ------------------------------------------------------------------ bounds
\* longest SERVER_PORT string (in characters) drawn from the environment
MaxPortStrLen == 6
\* number of times the program is started against the same directory
MaxRuns == 2

\* ------------------------------------------------------- program constants
\* for _ in range(30)
MaxPolls == 30
\* ARGO_PORT default
ARGO_PORT == 8081

\* CF_DOMAINS
CF_DOMAINS ==
    << "cf.090227.xyz", "cf.877774.xyz", "cf.130519.xyz",
       "cf.008500.xyz", "store.ubi.com", "saas.sin.fan" >>

\* DEFAULT_PORTS = ""
DEFAULT_PORTS == << >>

\* ------------------------------------------------------------ input sets
\* characters of a SERVER_PORT string: whitespace and a digit
PortChars == {" ", "1"}
PortStrings == UNION { [1..n -> PortChars] : n \in 0..MaxPortStrLen }
\* three of them: none, "1", "1 11"
FewPortStrings == { << >>, << "1" >>, << "1", " ", "1", "1" >> }

\* values of the ARGO_TOKEN / ARGO_DOMAIN environment variables (stripped)
TokenValues == {"", "eyJhIjoi"}
DomainValues == { << >>, << "tunnel.example.org" >> }
\* SINGLE_PORT_UDP is a constant of the script the operator edits
UdpChoices == {"hy2", "tuic"}

\* bodies the public-IP endpoints can answer with (after decode + strip)
IpResponses == {"", "203.0.113.7"}
\* sets of front domains that answer the reachability probe
ProbeOutcomes == { {}, {"cf.877774.xyz", "store.ubi.com"} }
NoProbeAnswers == { {} }
\* outcomes of the speed.cloudflare.com/meta lookup, as the derived label
MetaOutcomes == {"", "ExampleNet-US"}
NoMeta == {""}
\* outputs of `sb generate reality-keypair`: the PublicKey label present or not
KeygenOutputs ==
    { << "PrivateKey:", "kPRIV", "PublicKey:", "kPUB" >>,
      << "PrivateKey:", "kPRIV" >> }
FullKeygenOutput == { << "PrivateKey:", "kPRIV", "PublicKey:", "kPUB" >> }
\* exit statuses of the sing-box child
ChildCodes == {0, 2}

\* contents of argo.log at a poll (token sequences)
LogTexts ==
    { << >>,
      << "INF", "Requesting", "new", "quick", "Tunnel" >>,
      << "INF", "https://", "developers", ".cloudflare.com" >>,
      << "INF", "|", "https://", "abcde12345", ".trycloudflare.com", "|" >> }

\* ------------------------------------------------------------- sequences
RECURSIVE Contains(_, _)
\* needle in haystack (Python `in` on strings), both token sequences
Contains(hay, needle) ==
    IF Len(needle) > Len(hay) THEN FALSE
    ELSE IF SubSeq(hay, 1, Len(needle)) = needle THEN TRUE
    ELSE Contains(Tail(hay), needle)

RECURSIVE LStrip(_)
LStrip(s) == IF s # << >> /\ Head(s) = " " THEN LStrip(Tail(s)) ELSE s

RECURSIVE RStrip(_)
RStrip(s) ==
    IF s # << >> /\ s[Len(s)] = " " THEN RStrip(SubSeq(s, 1, Len(s) - 1)) ELSE s

\* str.strip()
Strip(s) == LStrip(RStrip(s))

RECURSIVE TakeWord(_)
\* the leading run of non-whitespace characters
TakeWord(s) ==
    IF s = << >> \/ Head(s) = " " THEN << >>
    ELSE << Head(s) >> \o TakeWord(Tail(s))

RECURSIVE Split(_)
\* str.split(): the whitespace-separated words, empty words dropped
Split(s) ==
    LET t == LStrip(s) IN
    IF t = << >> THEN << >>
    ELSE LET w == TakeWord(t) IN
         << w >> \o Split(SubSeq(t, Len(w) + 1, Len(t)))

RECURSIVE ToInt(_)
\* int() of a decimal digit string
ToInt(s) ==
    IF s = << >> THEN 0
    ELSE 10 * ToInt(SubSeq(s, 1, Len(s) - 1)) + (IF s[Len(s)] = "1" THEN 1 ELSE 0)

\* -------------------------------------------------------------- state
VARIABLES
    pc,                   \* next section of the script the main thread runs
    run,                  \* how many times the program has been started
    exit_status,          \* exit status of the program, -1 while it runs
    fatal,                \* which sys.exit(1) / uncaught error ended the run
    started,              \* sections of the script started so far, in order
    fs,                   \* contents of BASE_DIR/.npm
    disk_identity,        \* uuid.txt as it was on disk when this run started
    ARGO_TOKEN, ARGO_DOMAIN_OVERRIDE, SINGLE_PORT_UDP,
    PUBLIC_IP, BEST_CF_DOMAIN, isp,
    AVAILABLE_PORTS, TUIC_PORT, HY2_PORT, REALITY_PORT, HTTP_PORT,
    SINGLE_PORT_MODE,
    UUID, private_key, public_key,
    config,               \* the inbounds written to config.json
    sb_proc, argo_proc,   \* the two children
    ARGO_DOMAIN, polls, m,
    content,              \* generate_sub's local `content`
    server, request       \* the HTTP thread and the request it is handling

envVars == << ARGO_TOKEN, ARGO_DOMAIN_OVERRIDE, SINGLE_PORT_UDP >>
netVars == << PUBLIC_IP, BEST_CF_DOMAIN, isp >>
portVars ==
    << AVAILABLE_PORTS, TUIC_PORT, HY2_PORT, REALITY_PORT, HTTP_PORT,
       SINGLE_PORT_MODE >>
idVars == << UUID, private_key, public_key >>
procVars == << sb_proc, argo_proc >>
tunnelVars == << ARGO_DOMAIN, polls, m, content >>
httpVars == << server, request >>
runVars == << run, exit_status, fatal, disk_identity >>

vars ==
    << pc, started, fs, config, runVars, envVars, netVars, portVars, idVars,
       procVars, tunnelVars, httpVars >>

\* identities uuid.uuid4() can return
UuidValues == {"uuid-a", "uuid-b"}

NoFile == "<absent>"
NoData == [exists |-> FALSE, data |-> << >>]

\* FILE_PATH after mkdir: an empty directory
EmptyDir ==
    [ uuid |-> NoFile, key |-> NoData,
      sb |-> "absent", cloudflared |-> "absent", cert |-> FALSE,
      config |-> FALSE, log |-> FALSE, list |-> NoData, sub |-> NoData ]

\* mutant: the directory is left as it was found
WipeKeepsFiles(dir) == dir

\* if FILE_PATH.exists(): shutil.rmtree(FILE_PATH); FILE_PATH.mkdir(...)
WipeDir(dir) == EmptyDir

NoProc == [state |-> "none", code |-> 0]
IdleRequest ==
    [ stage |-> "idle", path |-> << >>, status |-> 0, ctype |-> "",
      body |-> [text |-> "", data |-> << >>],
      arrived_early |-> FALSE, read_early |-> FALSE ]

\* process start: module globals not yet assigned
FreshMemory ==
    /\ pc = "wipe" /\ exit_status = -1 /\ fatal = "none" /\ started = << >>
    /\ PUBLIC_IP = "" /\ BEST_CF_DOMAIN = "" /\ isp = "Node"
    /\ AVAILABLE_PORTS = << >> /\ TUIC_PORT = << >> /\ HY2_PORT = << >>
    /\ REALITY_PORT = << >> /\ HTTP_PORT = << >> /\ SINGLE_PORT_MODE = FALSE
    /\ UUID = "" /\ private_key = "" /\ public_key = ""
    /\ config = << >> /\ sb_proc = NoProc /\ argo_proc = "none"
    /\ ARGO_DOMAIN = << >> /\ polls = 0 /\ m = << >> /\ content = << >>
    /\ server = "off" /\ request = IdleRequest

Init ==
    /\ FreshMemory
    /\ run = 1
    /\ fs = EmptyDir
    /\ disk_identity = NoFile
    /\ ARGO_TOKEN \in TokenValues
    /\ ARGO_DOMAIN_OVERRIDE \in DomainValues
    /\ SINGLE_PORT_UDP \in UdpChoices

Begin(step) == started' = Append(started, step)

\* sys.exit(1), or an uncaught exception in the main thread
Die(reason) ==
    /\ pc' = "exited"
    /\ exit_status' = 1
    /\ fatal' = reason
    /\ UNCHANGED << run, disk_identity >>

Alive == UNCHANGED runVars

\* ------------------------------------------------- main thread, top down
\* FILE_PATH wipe and recreate
Wipe ==
    /\ pc = "wipe"
    /\ fs' = WipeDir(fs)
    /\ pc' = "public_ip"
    /\ Alive
    /\ UNCHANGED << started, config, envVars, netVars, portVars, idVars,
                    procVars, tunnelVars, httpVars >>

\* fetch_text(primary) or fetch_text(secondary)
FirstAnswer(r1, r2) == IF r1 # "" THEN r1 ELSE r2

PublicIp ==
    /\ pc = "public_ip"
    /\ Begin("public_ip")
    /\ \E r1 \in IpResponses, r2 \in IpResponses :
          /\ PUBLIC_IP' = FirstAnswer(r1, r2)
          /\ IF FirstAnswer(r1, r2) = ""
                THEN Die("no_ip")
                ELSE pc' = "front_domain" /\ Alive
    /\ UNCHANGED << fs, config, envVars, BEST_CF_DOMAIN, isp, portVars, idVars,
                    procVars, tunnelVars, httpVars >>

\* select_random_cf_domain: the domains it may return
CfChoices(responding) ==
    LET available == { CF_DOMAINS[i] : i \in DOMAIN CF_DOMAINS } \cap responding IN
    IF available # {} THEN available ELSE { CF_DOMAINS[1] }

FrontDomainStep(outcomes) ==
    /\ pc = "front_domain"
    /\ Begin("front_domain")
    /\ \E responding \in outcomes :
          BEST_CF_DOMAIN' \in CfChoices(responding)
    /\ pc' = "ports"
    /\ Alive
    /\ UNCHANGED << fs, config, envVars, PUBLIC_IP, isp, portVars, idVars,
                    procVars, tunnelVars, httpVars >>

\* PORTS_STRING = os.environ.get("SERVER_PORT", "").strip() or DEFAULT_PORTS
\* AVAILABLE_PORTS = PORTS_STRING.split() if PORTS_STRING else []
ParsePorts(env) ==
    LET PORTS_STRING == IF Strip(env) # << >> THEN Strip(env) ELSE DEFAULT_PORTS IN
    IF PORTS_STRING # << >> THEN Split(PORTS_STRING) ELSE << >>

\* mutant: multi-port mode serves HTTP on the first port
PortPlanHttpFirst(ports, udp) ==
    IF Len(ports) = 1
      THEN [ TUIC_PORT |-> IF udp = "tuic" THEN ports[1] ELSE << >>,
             HY2_PORT |-> IF udp = "tuic" THEN << >> ELSE ports[1],
             REALITY_PORT |-> << >>,
             HTTP_PORT |-> ports[1],
             SINGLE_PORT_MODE |-> TRUE ]
      ELSE [ TUIC_PORT |-> ports[1],
             HY2_PORT |-> ports[2],
             REALITY_PORT |-> ports[1],
             HTTP_PORT |-> ports[1],
             SINGLE_PORT_MODE |-> FALSE ]

\* mutant: single-port mode forgets to clear the other UDP port
PortPlanBothUdp(ports, udp) ==
    IF Len(ports) = 1
      THEN [ TUIC_PORT |-> ports[1],
             HY2_PORT |-> ports[1],
             REALITY_PORT |-> << >>,
             HTTP_PORT |-> ports[1],
             SINGLE_PORT_MODE |-> TRUE ]
      ELSE [ TUIC_PORT |-> ports[1],
             HY2_PORT |-> ports[2],
             REALITY_PORT |-> ports[1],
             HTTP_PORT |-> ports[2],
             SINGLE_PORT_MODE |-> FALSE ]

\* the PORT_COUNT == 1 / else assignment
PortPlan(ports, udp) ==
    IF Len(ports) = 1
      THEN [ TUIC_PORT |-> IF udp = "tuic" THEN ports[1] ELSE << >>,
             HY2_PORT |-> IF udp = "tuic" THEN << >> ELSE ports[1],
             REALITY_PORT |-> << >>,
             HTTP_PORT |-> ports[1],
             SINGLE_PORT_MODE |-> TRUE ]
      ELSE [ TUIC_PORT |-> ports[1],
             HY2_PORT |-> ports[2],
             REALITY_PORT |-> ports[1],
             HTTP_PORT |-> ports[2],
             SINGLE_PORT_MODE |-> FALSE ]

PortsStep(strings) ==
    /\ pc = "ports"
    /\ Begin("ports")
    /\ \E env \in strings :
          /\ AVAILABLE_PORTS' = ParsePorts(env)
          /\ IF Len(ParsePorts(env)) = 0
                THEN /\ Die("no_ports")
                     /\ UNCHANGED << TUIC_PORT, HY2_PORT, REALITY_PORT, HTTP_PORT,
                                     SINGLE_PORT_MODE >>
                ELSE LET plan == PortPlan(ParsePorts(env), SINGLE_PORT_UDP) IN
                     /\ TUIC_PORT' = plan.TUIC_PORT
                     /\ HY2_PORT' = plan.HY2_PORT
                     /\ REALITY_PORT' = plan.REALITY_PORT
                     /\ HTTP_PORT' = plan.HTTP_PORT
                     /\ SINGLE_PORT_MODE' = plan.SINGLE_PORT_MODE
                     /\ pc' = "uuid"
                     /\ Alive
    /\ UNCHANGED << fs, config, envVars, netVars, idVars, procVars, tunnelVars,
                    httpVars >>

\* UUID load-or-create
LoadOrCreateUuid(dir, fresh) ==
    IF dir.uuid # NoFile
      THEN [UUID |-> dir.uuid, fs |-> dir]
      ELSE [UUID |-> fresh, fs |-> [dir EXCEPT !.uuid = fresh]]

Uuid ==
    /\ pc = "uuid"
    /\ Begin("uuid")
    /\ \E fresh \in UuidValues :
          /\ UUID' = LoadOrCreateUuid(fs, fresh).UUID
          /\ fs' = LoadOrCreateUuid(fs, fresh).fs
    /\ pc' = "download_sb"
    /\ Alive
    /\ UNCHANGED << config, envVars, netVars, portVars, private_key, public_key,
                    procVars, tunnelVars, httpVars >>

\* mutant: a failed fetch is reported as success
download_file_unchecked(file, fetch) ==
    IF file = "exec" THEN [ok |-> TRUE, file |-> file]
    ELSE IF fetch = "ok" THEN [ok |-> TRUE, file |-> "exec"]
    ELSE IF fetch = "refused" THEN [ok |-> TRUE, file |-> file]
    ELSE [ok |-> TRUE, file |-> "partial"]

\* what a download can do: complete, fail before the output file is opened,
\* fail after it
FetchOutcomes == {"ok", "refused", "broken"}

\* download_file: present and executable, else fetch and chmod
download_file(file, fetch) ==
    IF file = "exec" THEN [ok |-> TRUE, file |-> file]
    ELSE IF fetch = "ok" THEN [ok |-> TRUE, file |-> "exec"]
    ELSE IF fetch = "refused" THEN [ok |-> FALSE, file |-> file]
    ELSE [ok |-> FALSE, file |-> "partial"]

DownloadSb ==
    /\ pc = "download_sb"
    /\ Begin("download")
    /\ \E fetch \in FetchOutcomes :
          LET r == download_file(fs.sb, fetch) IN
          /\ fs' = [fs EXCEPT !.sb = r.file]
          /\ IF r.ok THEN pc' = "download_argo" /\ Alive ELSE Die("download")
    /\ UNCHANGED << config, envVars, netVars, portVars, idVars, procVars,
                    tunnelVars, httpVars >>

DownloadArgo ==
    /\ pc = "download_argo"
    /\ \E fetch \in FetchOutcomes :
          LET r == download_file(fs.cloudflared, fetch) IN
          /\ fs' = [fs EXCEPT !.cloudflared = r.file]
          /\ IF r.ok THEN pc' = "reality_keys" /\ Alive ELSE Die("download")
    /\ UNCHANGED << started, config, envVars, netVars, portVars, idVars,
                    procVars, tunnelVars, httpVars >>

RECURSIVE AfterLabel(_, _)
\* re.search(label + r"\s*(\S+)", text).group(1), "" when there is no match
AfterLabel(text, label) ==
    IF Len(text) < 2 THEN ""
    ELSE IF Head(text) = label THEN text[2]
    ELSE AfterLabel(Tail(text), label)

\* Reality keys section
RealityKeysStep(outputs) ==
    /\ pc = "reality_keys"
    /\ Begin("reality_keys")
    /\ IF SINGLE_PORT_MODE
         THEN /\ private_key' = "" /\ public_key' = ""
              /\ fs' = fs
              /\ pc' = "certificates" /\ Alive
         ELSE IF fs.key.exists
           THEN /\ private_key' = AfterLabel(fs.key.data, "PrivateKey:")
                /\ public_key' = AfterLabel(fs.key.data, "PublicKey:")
                /\ fs' = fs
                /\ pc' = "certificates" /\ Alive
           ELSE \/ \E key_data \in outputs :
                     /\ fs' = [fs EXCEPT !.key = [exists |-> TRUE, data |-> key_data]]
                     /\ private_key' = AfterLabel(key_data, "PrivateKey:")
                     /\ public_key' = AfterLabel(key_data, "PublicKey:")
                     /\ pc' = "certificates" /\ Alive
                \* subprocess.check_output raises: uncaught
                \/ /\ Die("keygen")
                   /\ UNCHANGED << fs, private_key, public_key >>
    /\ UNCHANGED << config, envVars, netVars, portVars, UUID, procVars,
                    tunnelVars, httpVars >>

\* Certificates section: openssl found and succeeding, found and failing
\* (check=True raises, uncaught), or not found (embedded pair)
Certificates ==
    /\ pc = "certificates"
    /\ Begin("certificates")
    /\ \E openssl \in {"ok", "fails", "missing"} :
          IF openssl = "fails"
            THEN Die("cert") /\ fs' = fs
            ELSE /\ fs' = [fs EXCEPT !.cert = TRUE]
                 /\ pc' = "isp" /\ Alive
    /\ UNCHANGED << config, envVars, netVars, portVars, idVars, procVars,
                    tunnelVars, httpVars >>

\* mutant: the HTTP server section is missing, config follows at once
IspStepThenConfig(outcomes) ==
    /\ pc = "isp"
    /\ Begin("isp")
    /\ \E label \in outcomes : isp' = IF label # "" THEN label ELSE "Node"
    /\ pc' = "config"
    /\ Alive
    /\ UNCHANGED << fs, config, envVars, PUBLIC_IP, BEST_CF_DOMAIN, portVars,
                    idVars, procVars, tunnelVars, httpVars >>

\* ISP section: "Node" unless the meta lookup yields a label
IspStep(outcomes) ==
    /\ pc = "isp"
    /\ Begin("isp")
    /\ \E label \in outcomes : isp' = IF label # "" THEN label ELSE "Node"
    /\ pc' = "http_server"
    /\ Alive
    /\ UNCHANGED << fs, config, envVars, PUBLIC_IP, BEST_CF_DOMAIN, portVars,
                    idVars, procVars, tunnelVars, httpVars >>

\* threading.Thread(target=start_http_server, ...).start()
HttpStart ==
    /\ pc = "http_server"
    /\ Begin("http_server")
    /\ server' = "starting"
    /\ pc' = "config"
    /\ Alive
    /\ UNCHANGED << fs, config, envVars, netVars, portVars, idVars, procVars,
                    tunnelVars, request >>

Inbound(type, tag, listen, port, user, key) ==
    [type |-> type, tag |-> tag, listen |-> listen, listen_port |-> port,
     user |-> user, private_key |-> key]

\* the inbounds list of the sing-box config section
Inbounds(tuic, hy2, reality, uuid, priv) ==
    (IF tuic # << >>
       THEN << Inbound("tuic", "tuic-in", "::", ToInt(tuic), uuid, "") >>
       ELSE << >>)
    \o (IF hy2 # << >>
       THEN << Inbound("hysteria2", "hy2-in", "::", ToInt(hy2), uuid, "") >>
       ELSE << >>)
    \o (IF reality # << >>
       THEN << Inbound("vless", "vless-reality-in", "::", ToInt(reality), uuid,
                       priv) >>
       ELSE << >>)
    \o << Inbound("vless", "vless-argo-in", "127.0.0.1", ARGO_PORT, uuid, "") >>

Config ==
    /\ pc = "config"
    /\ Begin("config")
    /\ config' = Inbounds(TUIC_PORT, HY2_PORT, REALITY_PORT, UUID, private_key)
    /\ fs' = [fs EXCEPT !.config = TRUE]
    /\ pc' = "sb_start"
    /\ Alive
    /\ UNCHANGED << envVars, netVars, portVars, idVars, procVars, tunnelVars,
                    httpVars >>

\* sb_proc = subprocess.Popen([SB_FILE, "run", "-c", CONFIG_FILE])
SbStart ==
    /\ pc = "sb_start"
    /\ Begin("sing_box")
    /\ sb_proc' = [state |-> "running", code |-> 0]
    /\ pc' = "sb_check"
    /\ Alive
    /\ UNCHANGED << fs, config, envVars, netVars, portVars, idVars, argo_proc,
                    tunnelVars, httpVars >>

\* the sing-box child terminates on its own
ChildExit ==
    /\ pc # "exited"
    /\ sb_proc.state = "running"
    /\ \E code \in ChildCodes : sb_proc' = [state |-> "exited", code |-> code]
    /\ Alive
    /\ UNCHANGED << pc, started, fs, config, envVars, netVars, portVars, idVars,
                    argo_proc, tunnelVars, httpVars >>

\* time.sleep(2); if sb_proc.poll() is not None: ...
SbCheck ==
    /\ pc = "sb_check"
    /\ IF sb_proc.state = "exited"
         THEN /\ pc' = "sb_foreground"
              /\ fatal' = "sb_failed"
              /\ UNCHANGED << run, exit_status, disk_identity >>
         ELSE pc' = "argo_start" /\ Alive
    /\ UNCHANGED << started, fs, config, envVars, netVars, portVars, idVars,
                    procVars, tunnelVars, httpVars >>

\* subprocess.call([SB_FILE, "run", ...]) returns; sys.exit(1)
SbForeground ==
    /\ pc = "sb_foreground"
    /\ Die("sb_failed")
    /\ UNCHANGED << started, fs, config, envVars, netVars, portVars, idVars,
                    procVars, tunnelVars, httpVars >>

\* labels [a-zA-Z0-9-]+ can match
HostLabels == {"abcde12345", "developers", "api"}

RECURSIVE Search(_)
\* re.search(r"https://[a-zA-Z0-9-]+\.trycloudflare\.com", text).group(0),
\* << >> when there is no match
Search(text) ==
    IF Len(text) < 3 THEN << >>
    ELSE IF /\ text[1] = "https://"
            /\ text[2] \in HostLabels
            /\ text[3] = ".trycloudflare.com"
           THEN SubSeq(text, 1, 3)
    ELSE Search(Tail(text))

\* str.replace("https://", "")
DropScheme(url) == SelectSeq(url, LAMBDA t : t # "https://")

\* Argo tunnel section up to the polling loop
ArgoStart ==
    /\ pc = "argo_start"
    /\ Begin("argo")
    /\ ARGO_DOMAIN' = ARGO_DOMAIN_OVERRIDE
    /\ fs' = [fs EXCEPT !.log = TRUE]
    /\ argo_proc' = IF ARGO_TOKEN # "" THEN "fixed" ELSE "quick"
    /\ pc' = IF ARGO_TOKEN # "" THEN "generate_sub" ELSE "argo_poll"
    /\ polls' = 0
    /\ UNCHANGED << m, content >>
    /\ Alive
    /\ UNCHANGED << config, envVars, netVars, portVars, idVars, sb_proc,
                    httpVars >>

\* one iteration of `for _ in range(30)`: sleep, read the log, search it
ArgoPoll ==
    /\ pc = "argo_poll"
    /\ polls < MaxPolls
    /\ \E log_text \in LogTexts :
          /\ m' = Search(log_text)
          /\ IF Search(log_text) # << >>
                THEN /\ ARGO_DOMAIN' = DropScheme(Search(log_text))
                     /\ pc' = "generate_sub"
                     /\ polls' = 0
                ELSE /\ ARGO_DOMAIN' = ARGO_DOMAIN
                     /\ pc' = IF polls + 1 = MaxPolls THEN "generate_sub"
                                                      ELSE "argo_poll"
                     /\ polls' = IF polls + 1 = MaxPolls THEN 0 ELSE polls + 1
    /\ UNCHANGED content
    /\ Alive
    /\ UNCHANGED << started, fs, config, envVars, netVars, portVars, idVars,
                    procVars, httpVars >>

Line(proto, host, port, sni, pbk, path, label) ==
    [proto |-> proto, user |-> UUID, host |-> host, port |-> port, sni |-> sni,
     pbk |-> pbk, path |-> path, label |-> label, isp |-> isp]

\* mutant: the Reality line is gated on the Hysteria2 port
SubLinesWrongGate(argo_domain) ==
    (IF TUIC_PORT # << >>
       THEN << Line("tuic", PUBLIC_IP, TUIC_PORT, << "www.bing.com" >>, "", "",
                    "TUIC") >>
       ELSE << >>)
    \o (IF HY2_PORT # << >>
       THEN << Line("hysteria2", PUBLIC_IP, HY2_PORT, << "www.bing.com" >>, "", "",
                    "Hysteria2") >>
       ELSE << >>)
    \o (IF HY2_PORT # << >>
       THEN << Line("vless", PUBLIC_IP, REALITY_PORT, << "www.nazhumi.com" >>,
                    public_key, "", "Reality") >>
       ELSE << >>)
    \o (IF argo_domain # << >>
       THEN << Line("vless", BEST_CF_DOMAIN, << "4", "4", "3" >>, argo_domain, "",
                    UUID, "Argo") >>
       ELSE << >>)

\* generate_sub: the lines list
SubLines(argo_domain) ==
    (IF TUIC_PORT # << >>
       THEN << Line("tuic", PUBLIC_IP, TUIC_PORT, << "www.bing.com" >>, "", "",
                    "TUIC") >>
       ELSE << >>)
    \o (IF HY2_PORT # << >>
       THEN << Line("hysteria2", PUBLIC_IP, HY2_PORT, << "www.bing.com" >>, "", "",
                    "Hysteria2") >>
       ELSE << >>)
    \o (IF REALITY_PORT # << >>
       THEN << Line("vless", PUBLIC_IP, REALITY_PORT, << "www.nazhumi.com" >>,
                    public_key, "", "Reality") >>
       ELSE << >>)
    \o (IF argo_domain # << >>
       THEN << Line("vless", BEST_CF_DOMAIN, << "4", "4", "3" >>, argo_domain, "",
                    UUID, "Argo") >>
       ELSE << >>)

\* generate_sub(ARGO_DOMAIN): build content, list_path.write_text(content)
GenerateSub ==
    /\ pc = "generate_sub"
    /\ Begin("subscription")
    /\ content' = SubLines(ARGO_DOMAIN)
    /\ fs' = [fs EXCEPT !.list = [exists |-> TRUE, data |-> SubLines(ARGO_DOMAIN)]]
    /\ pc' = "sub_create"
    /\ UNCHANGED << ARGO_DOMAIN, polls, m >>
    /\ Alive
    /\ UNCHANGED << config, envVars, netVars, portVars, idVars, procVars,
                    httpVars >>

\* sub_path.write_text(content): open("w") creates the file empty ...
SubCreate ==
    /\ pc = "sub_create"
    /\ fs' = [fs EXCEPT !.sub = [exists |-> TRUE, data |-> << >>]]
    /\ pc' = "sub_flush"
    /\ Alive
    /\ UNCHANGED << started, config, envVars, netVars, portVars, idVars,
                    procVars, tunnelVars, httpVars >>

\* ... and the content reaches it on write/close
SubFlush ==
    /\ pc = "sub_flush"
    /\ fs' = [fs EXCEPT !.sub = [exists |-> TRUE, data |-> content]]
    /\ pc' = "wait"
    /\ Alive
    /\ UNCHANGED << started, config, envVars, netVars, portVars, idVars,
                    procVars, tunnelVars, httpVars >>

\* mutant: sys.exit(sb_proc.wait())
ExitWithChildCode(code) == code

\* exit status of the script once sb_proc.wait() has returned `code`
ExitAfterWait(code) == 0

\* sb_proc.wait(), then the script ends
Wait ==
    /\ pc = "wait"
    /\ sb_proc.state = "exited"
    /\ pc' = "exited"
    /\ exit_status' = ExitAfterWait(sb_proc.code)
    /\ UNCHANGED << run, fatal, disk_identity >>
    /\ UNCHANGED << started, fs, config, envVars, netVars, portVars, idVars,
                    procVars, tunnelVars, httpVars >>

\* the program is started again in the same directory
Restart ==
    /\ pc = "exited"
    /\ run < MaxRuns
    /\ run' = run + 1
    /\ disk_identity' = fs.uuid
    /\ pc' = "wipe" /\ exit_status' = -1 /\ fatal' = "none" /\ started' = << >>
    /\ PUBLIC_IP' = "" /\ BEST_CF_DOMAIN' = "" /\ isp' = "Node"
    /\ AVAILABLE_PORTS' = << >> /\ TUIC_PORT' = << >> /\ HY2_PORT' = << >>
    /\ REALITY_PORT' = << >> /\ HTTP_PORT' = << >> /\ SINGLE_PORT_MODE' = FALSE
    /\ UUID' = "" /\ private_key' = "" /\ public_key' = ""
    /\ config' = << >> /\ sb_proc' = NoProc /\ argo_proc' = "none"
    /\ ARGO_DOMAIN' = << >> /\ polls' = 0 /\ m' = << >> /\ content' = << >>
    /\ server' = "off" /\ request' = IdleRequest
    /\ UNCHANGED << fs, envVars >>

\* ------------------------------------------------------ the HTTP thread
\* request paths tried (token sequences)
TestPaths ==
    { << "/", "sub" >>, << "/", "health" >>, << "/", "x", "sub" >> }
    \cup { << "/", u >> : u \in UuidValues }

\* HTTPServer((bind, port), SubHandler): binds, or raises and the thread dies
HttpBind ==
    /\ pc # "exited"
    /\ server = "starting"
    /\ server' \in {"serving", "failed"}
    /\ Alive
    /\ UNCHANGED << pc, started, fs, config, envVars, netVars, portVars, idVars,
                    procVars, tunnelVars, request >>

\* mutant: only the fixed marker is recognised
MatchesMarkerOnly(path, uuid) == Contains(path, << "/", "sub" >>)

\* if "/sub" in self.path or f"/{UUID}" in self.path
Matches(path, uuid) ==
    Contains(path, << "/", "sub" >>) \/ Contains(path, << "/", uuid >>)

\* try: read_bytes() except Exception: b"error"
ReadBody(file) ==
    IF file.exists THEN [text |-> "", data |-> file.data]
    ELSE [text |-> "error", data |-> << >>]

\* do_GET up to end_headers (matching path), or the whole 404 branch
DoGetBegin ==
    /\ pc # "exited"
    /\ server = "serving"
    /\ request.stage \in {"idle", "done"}
    /\ \E path \in TestPaths :
          request' =
            IF Matches(path, UUID)
              THEN [ stage |-> "headers", path |-> path, status |-> 200,
                     ctype |-> "text/plain; charset=utf-8",
                     body |-> [text |-> "", data |-> << >>],
                     arrived_early |-> pc \notin {"wait"},
                     read_early |-> FALSE ]
              ELSE [ stage |-> "done", path |-> path, status |-> 404,
                     ctype |-> "",
                     body |-> [text |-> "404", data |-> << >>],
                     arrived_early |-> pc \notin {"wait"},
                     read_early |-> FALSE ]
    /\ Alive
    /\ UNCHANGED << pc, started, fs, config, envVars, netVars, portVars, idVars,
                    procVars, tunnelVars, server >>

\* self.wfile.write((FILE_PATH / "sub.txt").read_bytes()), or b"error"
DoGetBody ==
    /\ pc # "exited"
    /\ request.stage = "headers"
    /\ request' = [request EXCEPT !.stage = "done",
                                  !.body = ReadBody(fs.sub),
                                  !.read_early = pc \notin {"sub_flush", "wait"}]
    /\ Alive
    /\ UNCHANGED << pc, started, fs, config, envVars, netVars, portVars, idVars,
                    procVars, tunnelVars, server >>

\* the four input-drawing sections, on the small input sets ...
FrontDomain == FrontDomainStep(NoProbeAnswers)
Ports == PortsStep(FewPortStrings)
RealityKeys == RealityKeysStep(FullKeygenOutput)
Isp == IspStep(NoMeta)

\* ... and on the wide ones
FrontDomainAny == FrontDomainStep(ProbeOutcomes)
PortsAny == PortsStep(PortStrings)
RealityKeysAny == RealityKeysStep(KeygenOutputs)
IspAny == IspStep(MetaOutcomes)

\* the whole program: main thread, child, HTTP thread with clients, restarts
Next ==
    \/ Wipe \/ PublicIp \/ FrontDomain \/ Ports \/ Uuid
    \/ DownloadSb \/ DownloadArgo \/ RealityKeys \/ Certificates \/ Isp
    \/ HttpStart \/ Config \/ SbStart \/ ChildExit \/ SbCheck \/ SbForeground
    \/ ArgoStart \/ ArgoPoll \/ GenerateSub \/ SubCreate \/ SubFlush \/ Wait
    \/ Restart \/ HttpBind \/ DoGetBegin \/ DoGetBody

Spec == Init /\ [][Next]_vars

\* one run of the main thread and the child, over the wide input sets
ProvisionNext ==
    \/ Wipe \/ PublicIp \/ FrontDomainAny \/ PortsAny \/ Uuid
    \/ DownloadSb \/ DownloadArgo \/ RealityKeysAny \/ Certificates \/ IspAny
    \/ HttpStart \/ Config \/ SbStart \/ ChildExit \/ SbCheck \/ SbForeground
    \/ ArgoStart \/ ArgoPoll \/ GenerateSub \/ SubCreate \/ SubFlush \/ Wait

ProvisionSpec == Init /\ [][ProvisionNext]_vars

\* ------------------------------------------------------------ properties
StartedSet == { started[i] : i \in 1..Len(started) }
Pos(step) == CHOOSE i \in 1..Len(started) : started[i] = step
IsPrefix(a, b) == Len(a) <= Len(b) /\ a = SubSeq(b, 1, Len(a))

\* a "/" immediately followed by the marker or by the identity
PathHasMarker(path, uuid) ==
    \E i \in 1..(Len(path) - 1) : path[i] = "/" /\ path[i + 1] \in {"sub", uuid}

ErrorBody == [text |-> "error", data |-> << >>]
NotFoundBody == [text |-> "404", data |-> << >>]
FileBody(data) == [text |-> "", data |-> data]
Answered == request'.stage = "done" /\ request' # request

\* C1 as stated: every GET whose path contains /sub or /{identity} is
\* answered 200, text/plain; charset=utf-8, with the current bytes of sub.txt
\* as body; every other GET is answered 404 with body "404".
C1_AlwaysArtifact ==
    [][ Answered =>
          IF PathHasMarker(request'.path, UUID)
            THEN /\ request'.status = 200
                 /\ request'.ctype = "text/plain; charset=utf-8"
                 /\ fs.sub.exists
                 /\ request'.body = FileBody(fs.sub.data)
            ELSE /\ request'.status = 404
                 /\ request'.body = NotFoundBody ]_vars

\* C1 amended: a GET whose path contains /sub or /{identity} is answered
\* 200, text/plain; charset=utf-8, with the bytes sub.txt holds when the
\* handler reads it if the file exists and the literal "error" if it does not;
\* every other GET is answered 404 with body "404".
C1_Responses ==
    [][ Answered =>
          IF PathHasMarker(request'.path, UUID)
            THEN /\ request'.status = 200
                 /\ request'.ctype = "text/plain; charset=utf-8"
                 /\ request'.body = IF fs.sub.exists THEN FileBody(fs.sub.data)
                                                      ELSE ErrorBody
            ELSE /\ request'.status = 404
                 /\ request'.body = NotFoundBody ]_vars

\* a request on the identity path was answered with the artifact's lines
C1_Witness ==
    /\ request.stage = "done"
    /\ request.path = << "/", UUID >>
    /\ request.status = 200
    /\ request.body.data # << >>

\* C2 as stated: a matching GET that arrives after the server has bound and
\* before generate_sub has written sub.txt completes with the body "error".
C2_EarlyArrivalGetsError ==
    (request.stage = "done" /\ request.status = 200 /\ request.arrived_early)
        => request.body = ErrorBody

\* C2 amended: a matching GET whose read of sub.txt happens before
\* generate_sub creates the file completes with the body "error" (one that
\* arrives before the write but reads during or after it gets the bytes the
\* file then holds); a handler that has sent its headers can always complete,
\* the server thread stays up once it serves, and a matching GET that arrives
\* after generate_sub has returned gets the written artifact.
C2_MissingFileTolerated ==
    /\ (request.stage = "done" /\ request.status = 200 /\ request.read_early)
          => request.body = ErrorBody
    /\ (request.stage = "done" /\ request.status = 200
          /\ ~request.arrived_early)
          => (request.body = FileBody(content) /\ content # << >>)
    /\ request.stage # "idle" => server = "serving"
    /\ (request.stage = "headers" /\ pc # "exited") => ENABLED DoGetBody

\* a matching request read sub.txt before it existed and got "error"
C2_Witness ==
    /\ server = "serving"
    /\ request.stage = "done"
    /\ request.status = 200
    /\ request.read_early
    /\ request.body = ErrorBody

\* C3 as stated: with two or more ports, TUIC, Hysteria2 and Reality each
\* get a non-empty port, the three ports are pairwise distinct, and the HTTP
\* port is the second element.
C3_DistinctPorts ==
    Len(AVAILABLE_PORTS) >= 2 =>
        /\ TUIC_PORT # << >> /\ HY2_PORT # << >> /\ REALITY_PORT # << >>
        /\ TUIC_PORT # HY2_PORT
        /\ TUIC_PORT # REALITY_PORT
        /\ HY2_PORT # REALITY_PORT
        /\ HTTP_PORT = AVAILABLE_PORTS[2]

\* C3 amended: with two or more ports, TUIC, Hysteria2 and Reality each get
\* a non-empty port: TUIC and Reality both the first element, Hysteria2 the
\* second; the HTTP port is the second element.
C3_MultiPortPlan ==
    Len(AVAILABLE_PORTS) >= 2 =>
        /\ TUIC_PORT # << >> /\ HY2_PORT # << >> /\ REALITY_PORT # << >>
        /\ TUIC_PORT = AVAILABLE_PORTS[1]
        /\ REALITY_PORT = AVAILABLE_PORTS[1]
        /\ HY2_PORT = AVAILABLE_PORTS[2]
        /\ HTTP_PORT = AVAILABLE_PORTS[2]
        /\ ~SINGLE_PORT_MODE

\* a three-element list with different first and second elements was planned
C3_Witness ==
    /\ Len(AVAILABLE_PORTS) = 3
    /\ AVAILABLE_PORTS[1] # AVAILABLE_PORTS[2]
    /\ HTTP_PORT = AVAILABLE_PORTS[2]
    /\ pc = "wait"

AfterPolling ==
    \/ pc \in {"generate_sub", "sub_create", "sub_flush", "wait"}
    \/ pc = "exited" /\ fatal = "none"
HasLine(d, label) == \E i \in 1..Len(d) : d[i].label = label

\* C4: in quick-tunnel mode the log is polled at most 30 times and only
\* while no poll has matched; after a match the tunnel domain is the matched
\* host name without "https://"; after 30 polls without a match the tunnel
\* domain is empty, the run goes on, and the subscription has no tunnel line.
C4_QuickTunnel ==
    /\ polls <= MaxPolls
    /\ pc = "argo_poll" => (ARGO_TOKEN = "" /\ m = << >> /\ polls < MaxPolls)
    /\ (ARGO_TOKEN = "" /\ AfterPolling) =>
          IF m # << >>
            THEN ARGO_DOMAIN = << m[2], m[3] >>
            ELSE /\ ARGO_DOMAIN = << >>
                 /\ fs.sub.data # << >> => ~HasLine(fs.sub.data, "Argo")

\* C5 as stated: a run in which no startup step is fatal ends only after the
\* sing-box child has exited, with the child's exit status as its own.
C5_MirrorsChild ==
    (pc = "exited" /\ fatal = "none") =>
        (sb_proc.state = "exited" /\ exit_status = sb_proc.code)

\* C5 amended: a run in which no startup step is fatal blocks until the
\* sing-box child has exited and then ends with exit status 0, whatever the
\* child's exit status.
C5_ExitsZeroAfterChild ==
    /\ (pc = "exited" /\ fatal = "none") =>
          (sb_proc.state = "exited" /\ exit_status = 0)
    /\ (pc = "wait" /\ sb_proc.state = "running") => ~ENABLED Wait
    /\ pc # "exited" => exit_status = -1

\* the child ended with status 2 and the program has exited after it
C5_Witness ==
    /\ pc = "exited"
    /\ fatal = "none"
    /\ sb_proc = [state |-> "exited", code |-> 2]

FatalPreconditions == {"no_ip", "no_ports", "download", "sb_failed"}
FailingStep(reason) ==
    CASE reason = "no_ip" -> "public_ip"
      [] reason = "no_ports" -> "ports"
      [] reason = "download" -> "download"
      [] reason = "sb_failed" -> "sing_box"

C7_IdentityStable ==
    (run > 1 /\ disk_identity # NoFile /\ "uuid" \in StartedSet) =>
        /\ UUID = disk_identity
        /\ \A i \in 1..Len(config) : config[i].user = disk_identity
        /\ \A i \in 1..Len(fs.sub.data) : fs.sub.data[i].user = disk_identity

IsTuic(l) == l.proto = "tuic" /\ l.label = "TUIC"
IsHy2(l) == l.proto = "hysteria2" /\ l.label = "Hysteria2"
IsReality(l) == l.proto = "vless" /\ l.label = "Reality"
IsArgo(l) == l.proto = "vless" /\ l.label = "Argo"
Rank(l) ==
    IF IsTuic(l) THEN 1 ELSE IF IsHy2(l) THEN 2 ELSE IF IsReality(l) THEN 3
    ELSE IF IsArgo(l) THEN 4 ELSE 0
Rendered(d) ==
    /\ (\E i \in 1..Len(d) : IsTuic(d[i])) <=> TUIC_PORT # << >>
    /\ (\E i \in 1..Len(d) : IsHy2(d[i])) <=> HY2_PORT # << >>
    /\ (\E i \in 1..Len(d) : IsReality(d[i])) <=> REALITY_PORT # << >>
    /\ (\E i \in 1..Len(d) : IsArgo(d[i])) <=> ARGO_DOMAIN # << >>
    /\ \A i \in 1..Len(d) : Rank(d[i]) > 0
    /\ \A i, j \in 1..Len(d) : i < j => Rank(d[i]) < Rank(d[j])

\* C8: the rendered subscription has a TUIC, Hysteria2, Reality line iff
\* the respective port is non-empty and a tunnel line iff the tunnel domain
\* is non-empty, in that order, and list.txt and sub.txt get the same content.
C8_Rendering ==
    /\ fs.list.exists => Rendered(fs.list.data)
    /\ pc \in {"wait", "exited"} => fs.sub = fs.list
    /\ (pc = "wait" \/ (pc = "exited" /\ fatal = "none")) => fs.sub.exists

\* both artifacts hold all four lines
C8_Witness ==
    /\ pc = "wait"
    /\ Len(fs.sub.data) = 4
    /\ fs.list.data = fs.sub.data

\* C9: with exactly one port p, p goes to Hysteria2 unless the single-port
\* choice is "tuic", then to TUIC; the other UDP port is empty, the HTTP port
\* is p, the Reality port is empty and no Reality key material is made.
C9_SinglePortPlan ==
    Len(AVAILABLE_PORTS) = 1 =>
        LET p == AVAILABLE_PORTS[1] IN
        /\ p # << >>
        /\ IF SINGLE_PORT_UDP = "tuic"
              THEN TUIC_PORT = p /\ HY2_PORT = << >>
              ELSE HY2_PORT = p /\ TUIC_PORT = << >>
        /\ HTTP_PORT = p
        /\ REALITY_PORT = << >>
        /\ private_key = "" /\ public_key = ""
        /\ ~fs.key.exists

\* a single port went to TUIC and the run got past the key section
C9_Witness ==
    /\ Len(AVAILABLE_PORTS) = 1
    /\ SINGLE_PORT_UDP = "tuic"
    /\ TUIC_PORT = AVAILABLE_PORTS[1]
    /\ "certificates" \in StartedSet

ClaimedOrder ==
    << "ports", "public_ip", "front_domain", "download", "uuid", "reality_keys",
       "certificates", "config", "sing_box", "argo", "subscription" >>
CodeOrder ==
    << "public_ip", "front_domain", "ports", "uuid", "download", "reality_keys",
       "certificates", "isp", "http_server", "config", "sing_box", "argo",
       "subscription" >>
SubAfterTunnel ==
    (pc # "wipe" /\ fs.sub.exists) =>
        ("subscription" \in StartedSet /\ pc \notin {"argo_start", "argo_poll"})

\* C10 as stated: the sections start in the order port plan, public IP and
\* front domain, downloads, identity and keys, certificates, config,
\* sing-box, tunnel, subscription; the HTTP server starts before config; the
\* subscription is written only after tunnel resolution.
C10_ClaimedOrder ==
    /\ \A i, j \in 1..Len(ClaimedOrder) :
          (i < j /\ ClaimedOrder[j] \in StartedSet) =>
              /\ ClaimedOrder[i] \in StartedSet
              /\ Pos(ClaimedOrder[i]) < Pos(ClaimedOrder[j])
    /\ "config" \in StartedSet => "http_server" \in StartedSet
    /\ SubAfterTunnel

\* C10 amended: the sections start in the order public IP, front domain,
\* port plan, identity, downloads, Reality keys, certificates, ISP lookup,
\* HTTP server, config, sing-box, tunnel, subscription; the HTTP server
\* starts before config; the subscription is written only after tunnel
\* resolution.
C10_CodeOrder ==
    /\ IsPrefix(started, CodeOrder)
    /\ "config" \in StartedSet => "http_server" \in StartedSet
    /\ SubAfterTunnel

\* every section has started and the subscription is on disk
C10_Witness ==
    /\ started = CodeOrder
    /\ fs.sub.data # << >>

====
